---------------------------- MODULE Spec2Model ----------------------------
(***************************************************************************)
(* A model of pydris' command engine: the tokenizer (parse_content), the   *)
(* value parsers, the parameter binder (Param), Command.invoke and the     *)
(* Client's command registry and message dispatch.                         *)
(*                                                                         *)
(* A Python str is a sequence of one-character strings and a typed value   *)
(* is a record [t |-> type tag, v |-> payload].                            *)
(***************************************************************************)
EXTENDS Integers, Sequences, FiniteSets, TLC

VARIABLES
    prefix,      \* Client.prefix
    commands,    \* Client.commands: name -> Command
    listeners,   \* Client.listeners: the (pred, listener) pairs add_command appended
    op,          \* the operation that has just run, "idle" once its caller has moved on
    msg,         \* content of the message last handed to handle_message / invoke
    calls,       \* what that dispatch did: one record per Command.invoke call
    raised,      \* the exception that reached the caller of the last operation
    command,     \* the Command handed to add_command, or the one invoke is called on
    content,     \* the argument of the last parse_content call
    tokens,      \* what that call returned
    init_args,   \* the arguments of Param.__init__
    param,       \* the Param it built, or the error it raised
    raw,         \* the argument of Param.parse
    bound,       \* what Param.parse returned or raised
    extensions,  \* Client.extensions
    ws,          \* the messages the gateway has still to deliver to Client.start
    tasks        \* the tasks Client.start created, one per message received

vars == <<prefix, commands, listeners, op, msg, calls, raised, command,
          content, tokens, init_args, param, raw, bound, extensions, ws, tasks>>

NoError == "no error"

(***************************************************************************)
(* Bounds of the model.                                                    *)
(***************************************************************************)
MaxContent == 4    \* longest text handed to parse_content character by character
MaxMessage == 4    \* longest message content handed to handle_message
MaxNames == 2      \* most names (name and aliases) of a Command added to the Client
MaxTokens == 2     \* most raw tokens handed to Param.parse
MaxArg == 3        \* longest token handed to a number parser
MaxQuoted == 2     \* longest text between two quotes of a quoted line
MaxExtensions == 2 \* most extensions loaded into a Client
MaxFrames == 3     \* most messages the gateway delivers to Client.start
MaxItems == 2      \* most items (words, flags with or without a value) of a command line

(***************************************************************************)
(* Python str operations.                                                  *)
(***************************************************************************)
RECURSIVE SeqsUpTo(_, _)
\* every sequence over S of length at most n
SeqsUpTo(S, n) ==
    IF n = 0 THEN {<<>>}
    ELSE LET shorter == SeqsUpTo(S, n - 1)
         IN shorter \cup {Append(s, c) : s \in {t \in shorter : Len(t) = n - 1}, c \in S}

\* s[n:]
Drop(s, n) == SubSeq(s, n + 1, Len(s))

\* s.startswith(p)
StartsWith(s, p) == Len(p) <= Len(s) /\ SubSeq(s, 1, Len(p)) = p

\* str.isspace for one character (the whitespace of the model's alphabet)
IsSpace(c) == c \in {" ", "\t"}

RECURSIVE SplitFrom(_, _, _)
\* s.split(): the maximal runs of non-whitespace, in order
SplitFrom(s, i, word) ==
    IF i > Len(s) THEN (IF word = <<>> THEN <<>> ELSE <<word>>)
    ELSE IF IsSpace(s[i])
         THEN (IF word = <<>> THEN <<>> ELSE <<word>>) \o SplitFrom(s, i + 1, <<>>)
         ELSE SplitFrom(s, i + 1, Append(word, s[i]))

Split(s) == SplitFrom(s, 1, <<>>)

RECURSIVE UpToSpace(_, _)
\* s.split(" ", 1)[0]: the text before the first space
UpToSpace(s, i) ==
    IF i > Len(s) \/ s[i] = " " THEN SubSeq(s, 1, i - 1) ELSE UpToSpace(s, i + 1)

SplitSpaceFirst(s) == UpToSpace(s, 1)

(***************************************************************************)
(* parse_content: the tokenizer.                                           *)
(***************************************************************************)
\* kwargs.setdefault(name, []).append(value)
SetDefaultAppend(kwargs, name, value) ==
    IF name \in DOMAIN kwargs
    THEN [kwargs EXCEPT ![name] = Append(@, value)]
    ELSE kwargs @@ (name :> <<value>>)

\* the locals of parse_content before the loop
ParseStart ==
    [args |-> <<>>, kwargs |-> <<>>, quoted |-> FALSE, escaped |-> FALSE,
     dash |-> FALSE, double_dash |-> FALSE, value |-> <<>>, name |-> <<>>]

\* "if name: kwargs...append(value) / elif value: args.append(value)"
Emit(st) ==
    IF st.name # <<>>
    THEN [st EXCEPT !.kwargs = SetDefaultAppend(st.kwargs, st.name, st.value)]
    ELSE IF st.value # <<>>
         THEN [st EXCEPT !.args = Append(@, st.value)]
         ELSE st

\* ... followed by name = "" and value = ""
Commit(st) == [Emit(st) EXCEPT !.name = <<>>, !.value = <<>>]

\* the branch "elif c == ' '" of the loop body
StepSpace(st) ==
    LET st1 == IF st.double_dash /\ st.name = <<>>
               THEN [st EXCEPT !.args = Append(@, <<"-", "-">>)]
               ELSE IF st.dash /\ st.name = <<>>
                    THEN [st EXCEPT !.args = Append(@, <<"-">>)]
                    ELSE st
    IN IF st1.double_dash
       THEN [st1 EXCEPT !.double_dash = FALSE, !.dash = FALSE]
       ELSE IF st1.name # <<>> /\ st1.value = <<>>
            THEN st1
            ELSE IF st1.quoted
                 THEN [st1 EXCEPT !.value = Append(@, " ")]
                 ELSE Commit(st1)

\* an iteration in which an escaped quote still toggles quoting
StepCharQuoteToggles(st, c) ==
    IF c = "\\" /\ ~st.escaped
    THEN [st EXCEPT !.escaped = TRUE]
    ELSE IF st.escaped /\ c # "\""
    THEN [st EXCEPT !.value = Append(@, c), !.escaped = FALSE]
    ELSE IF c = "\"" /\ ~st.quoted
    THEN [st EXCEPT !.quoted = TRUE, !.escaped = FALSE]
    ELSE IF c = "\""
    THEN Commit([st EXCEPT !.quoted = FALSE, !.escaped = FALSE])
    ELSE IF c = "-" /\ ~st.dash /\ st.value = <<>> /\ ~st.quoted
    THEN [st EXCEPT !.dash = TRUE]
    ELSE IF c = "-" /\ ~st.double_dash /\ st.value = <<>> /\ ~st.quoted
    THEN [st EXCEPT !.double_dash = TRUE]
    ELSE IF st.double_dash /\ c # " "
    THEN [st EXCEPT !.name = Append(@, c)]
    ELSE IF st.dash /\ c # " "
    THEN [st EXCEPT !.name = <<c>>, !.dash = FALSE]
    ELSE IF c = " "
    THEN StepSpace(st)
    ELSE [st EXCEPT !.value = Append(@, c)]

\* one iteration of "for c in content"
StepChar(st, c) ==
    IF c = "\\" /\ ~st.escaped
    THEN [st EXCEPT !.escaped = TRUE]
    ELSE IF st.escaped
    THEN [st EXCEPT !.value = Append(@, c), !.escaped = FALSE]
    ELSE IF c = "\"" /\ ~st.quoted
    THEN [st EXCEPT !.quoted = TRUE]
    ELSE IF c = "\""
    THEN Commit([st EXCEPT !.quoted = FALSE])
    ELSE IF c = "-" /\ ~st.dash /\ st.value = <<>> /\ ~st.quoted
    THEN [st EXCEPT !.dash = TRUE]
    ELSE IF c = "-" /\ ~st.double_dash /\ st.value = <<>> /\ ~st.quoted
    THEN [st EXCEPT !.double_dash = TRUE]
    ELSE IF st.double_dash /\ c # " "
    THEN [st EXCEPT !.name = Append(@, c)]
    ELSE IF st.dash /\ c # " "
    THEN [st EXCEPT !.name = <<c>>, !.dash = FALSE]
    ELSE IF c = " "
    THEN StepSpace(st)
    ELSE [st EXCEPT !.value = Append(@, c)]

RECURSIVE ParseLoop(_, _, _)
ParseLoop(st, text, i) ==
    IF i > Len(text) THEN st ELSE ParseLoop(StepChar(st, text[i]), text, i + 1)

\* a tokenizer that returns after the loop without the commit at end of input
parse_content_uncommitted(text) ==
    [args |-> ParseLoop(ParseStart, text, 1).args,
     kwargs |-> ParseLoop(ParseStart, text, 1).kwargs]

\* parse_content(content): the (args, kwargs) it returns
parse_content(text) ==
    LET st == Emit(ParseLoop(ParseStart, text, 1))
    IN [args |-> st.args, kwargs |-> st.kwargs]


(***************************************************************************)
(* Values and errors.  Optional[X] is <<>> for None and <<x>> for a value  *)
(* x, except for Param.default, which is any Python value, None included.  *)
(***************************************************************************)
PyNone == [t |-> "None", v |-> 0]
PyStr(s) == [t |-> "str", v |-> s]
PyInt(n) == [t |-> "int", v |-> n]
PyFloat(n) == [t |-> "float", v |-> n]
PyBool(b) == [t |-> "bool", v |-> b]
PyList(l) == [t |-> "list", v |-> l]

E_Required == "ValueError: Parameter is required"
E_NoDefault == "ValueError: Parameter cannot be required and have a default value"
E_ShortNotFlag == "ValueError: Parameters with short names must be glags"
E_NotEnough == "ValueError: Not enough args"
E_Literal == "ValueError: invalid literal"
E_Negative == "ValueError: This number can't be negative"
E_Bool == "ValueError: Value cannot be interpreted as a boolean"
E_Duplicate == "ValueError: A command with this name already exists"
E_NoPrefix == "ValueError: Prefix can't be None"
E_Index == "IndexError: list index out of range"
E_Func == "Exception raised by the command's func"
E_Handler == "Exception raised by the command's error handler"

\* the two messages that report a parameter without a value
MissingParameterErrors == {E_Required, E_NotEnough}
\* what the value parsers raise
ConversionErrors == {E_Literal, E_Negative, E_Bool}

Ok(val) == [err |-> NoError, val |-> val]
Err(e) == [err |-> e, val |-> PyNone]

(***************************************************************************)
(* The value parsers.  A parser is [kind, decimal, signed]; decimal and    *)
(* signed are NumberParser's options.                                      *)
(***************************************************************************)
StringParser == [kind |-> "String", decimal |-> FALSE, signed |-> FALSE]
NumberParser(decimal, signed) == [kind |-> "Number", decimal |-> decimal, signed |-> signed]
BoolParser == [kind |-> "Bool", decimal |-> FALSE, signed |-> FALSE]

Digits == <<"0", "1", "2", "3", "4", "5", "6", "7", "8", "9">>
IsDigit(c) == \E d \in 1..Len(Digits) : Digits[d] = c
DigitValue(c) == (CHOOSE d \in 1..Len(Digits) : Digits[d] = c) - 1

RECURSIVE LStrip(_)
LStrip(s) == IF s # <<>> /\ IsSpace(s[1]) THEN LStrip(Tail(s)) ELSE s
RECURSIVE RStrip(_)
RStrip(s) == IF s # <<>> /\ IsSpace(s[Len(s)]) THEN RStrip(SubSeq(s, 1, Len(s) - 1)) ELSE s
\* s.strip()
Strip(s) == RStrip(LStrip(s))

RECURSIVE DigitsValue(_, _)
DigitsValue(s, acc) ==
    IF s = <<>> THEN acc ELSE DigitsValue(Tail(s), 10 * acc + DigitValue(s[1]))

\* int(arg) and float(arg) on a text of whitespace, signs and decimal
\* digits: surrounding whitespace is stripped, one sign is allowed, at least
\* one digit must follow and nothing else may.
NumberLiteral(arg) ==
    LET s == Strip(arg)
        signed == s # <<>> /\ s[1] \in {"-", "+"}
        digits == IF signed THEN Tail(s) ELSE s
        n == DigitsValue(digits, 0)
    IN IF digits = <<>> \/ \E i \in 1..Len(digits) : ~IsDigit(digits[i])
       THEN Err(E_Literal)
       ELSE Ok(IF signed /\ s[1] = "-" THEN 0 - n ELSE n)

\* a number parser that ignores signed
NumberParseUnchecked(parser, arg) ==
    LET found == NumberLiteral(arg)
    IN IF found.err # NoError THEN Err(found.err)
       ELSE Ok(<<IF parser.decimal THEN PyFloat(found.val) ELSE PyInt(found.val)>>)

\* NumberParser.parse
NumberParse(parser, arg) ==
    LET found == NumberLiteral(arg)
    IN IF found.err # NoError THEN Err(found.err)
       ELSE IF ~parser.signed /\ found.val < 0 THEN Err(E_Negative)
       ELSE Ok(<<IF parser.decimal THEN PyFloat(found.val) ELSE PyInt(found.val)>>)

UpperCase == <<"A", "B", "C", "D", "E", "F", "G", "H", "I", "J", "K", "L", "M",
               "N", "O", "P", "Q", "R", "S", "T", "U", "V", "W", "X", "Y", "Z">>
LowerCase == <<"a", "b", "c", "d", "e", "f", "g", "h", "i", "j", "k", "l", "m",
               "n", "o", "p", "q", "r", "s", "t", "u", "v", "w", "x", "y", "z">>
\* arg, with its letters as they are
LowerKept(arg) == arg

\* arg.lower()
Lower(arg) ==
    [i \in 1..Len(arg) |->
        IF \E k \in 1..Len(UpperCase) : UpperCase[k] = arg[i]
        THEN LowerCase[CHOOSE k \in 1..Len(UpperCase) : UpperCase[k] = arg[i]]
        ELSE arg[i]]

BoolTrue == {<<"y", "e", "s">>, <<"y">>, <<"t", "r", "u", "e">>, <<"t">>, <<"1">>, <<>>}
BoolFalse == {<<"n", "o">>, <<"n">>, <<"f", "a", "l", "s", "e">>, <<"f">>, <<"0">>}

\* BoolParser.parse
BoolParse(arg) ==
    IF Lower(arg) \in BoolTrue THEN Ok(<<PyBool(TRUE)>>)
    ELSE IF Lower(arg) \in BoolFalse THEN Ok(<<PyBool(FALSE)>>)
    ELSE Err(E_Bool)

\* StringParser.parse
StringParse(arg) == Ok(<<PyStr(arg)>>)

\* parser.parse(arg): the list of values, or the error raised
ParserParse(parser, arg) ==
    IF parser.kind = "String" THEN StringParse(arg)
    ELSE IF parser.kind = "Number" THEN NumberParse(parser, arg)
    ELSE BoolParse(arg)

\* a constructor without the check of a short name on a non-flag
ParamInitShortUnchecked(name, parser, required, default, multiple, short, flag) ==
    IF required = <<TRUE>> /\ default # PyNone THEN Err(E_NoDefault)
    ELSE Ok([name |-> name,
             parser |-> parser,
             default |-> default,
             required |-> IF required # <<>> THEN required[1] ELSE default = PyNone,
             multiple |-> multiple,
             short |-> short,
             flag |-> IF flag # <<>> THEN flag[1] ELSE short # <<>>])

(***************************************************************************)
(* Param.                                                                  *)
(***************************************************************************)
\* Param.__init__: the Param built, or the error raised
ParamInit(name, parser, required, default, multiple, short, flag) ==
    IF required = <<TRUE>> /\ default # PyNone THEN Err(E_NoDefault)
    ELSE IF flag = <<FALSE>> /\ short # <<>> THEN Err(E_ShortNotFlag)
    ELSE Ok([name |-> name,
             parser |-> parser,
             default |-> default,
             required |-> IF required # <<>> THEN required[1] ELSE default = PyNone,
             multiple |-> multiple,
             short |-> short,
             flag |-> IF flag # <<>> THEN flag[1] ELSE short # <<>>])

RECURSIVE ParseEach(_, _, _, _)
\* the loop "for i in args: parsed.append(await self.parser.parse(i))"
\* followed by the flattening of parsed
ParseEach(parser, args, i, matches) ==
    IF i > Len(args) THEN Ok(matches)
    ELSE LET r == ParserParse(parser, args[i])
         IN IF r.err # NoError THEN Err(r.err)
            ELSE ParseEach(parser, args, i + 1, matches \o r.val)

\* matches[0]: the first value instead of the last
FirstMatch(matches) == matches[1]

\* matches[-1]
LastMatch(matches) == matches[Len(matches)]

\* what Param.parse does once matches is computed
Resolve(p, matches) ==
    IF Len(matches) = 0
    THEN IF p.required THEN Err(E_Required)
         ELSE IF p.default = PyNone THEN Err(E_NoDefault)
         ELSE Ok(p.default)
    ELSE IF p.multiple THEN Ok(PyList(matches))
    ELSE Ok(LastMatch(matches))

\* Param.parse(self, args)
ParamParse(p, args) ==
    LET m == ParseEach(p.parser, args, 1, <<>>)
    IN IF m.err # NoError THEN Err(m.err) ELSE Resolve(p, m.val)

(***************************************************************************)
(* Command.  A Command is [names, args, func, handler]: names is           *)
(* [self.name] + self.aliases, args the Params in declaration order, func  *)
(* says whether the wrapped coroutine returns or raises, and handler is    *)
(* "None" or says whether the registered error handler returns or raises.  *)
(***************************************************************************)
\* dict.get(key) is None
IsNone(d, key) == key \notin DOMAIN d \/ d[key] = PyNone

\* d[key] = val
Put(d, key, val) == [k \in DOMAIN d \cup {key} |-> IF k = key THEN val ELSE d[k]]

IsFlag(a) == a.flag
IsPositional(a) == ~a.flag

\* the list params of Command.invoke: the positional Params, in declaration order
Positional(args) == SelectSeq(args, IsPositional)

RECURSIVE KwPick(_, _)
KwPick(flags, i) ==
    IF i > Len(flags) THEN <<>>
    ELSE (IF \A j \in 1..(i - 1) : flags[j].name # flags[i].name
          THEN <<flags[CHOOSE k \in i..Len(flags) :
                          /\ flags[k].name = flags[i].name
                          /\ \A j \in (k + 1)..Len(flags) : flags[j].name # flags[i].name]>>
          ELSE <<>>) \o KwPick(flags, i + 1)

\* kwparams.values() of Command.invoke: one Param per flag name, at the place
\* of the name's first declaration and holding its last one
KwParams(args) == KwPick(SelectSeq(args, IsFlag), 1)

\* the text Command.invoke hands to parse_content
\*   invocation = prefix + msg.content[len(prefix):].split(" ", 1)[0]
\*   msg.content[len(invocation):]
InvokedText(text, pfx) ==
    Drop(text, Len(pfx \o SplitSpaceFirst(Drop(text, Len(pfx)))))

\* the state of one Command.invoke call, after parse_content
StartInvoke(cmd, text, pfx) ==
    [cmd |-> cmd,
     msg |-> text,                  \* msg.content
     text |-> InvokedText(text, pfx),
     tokens |-> parse_content(InvokedText(text, pfx)),
     parses |-> <<>>,               \* the Param.parse calls made: [name, raw]
     passed_args |-> <<>>,
     error |-> NoError,             \* the exception raised inside the try block
     func |-> <<>>,                 \* the calls of self.func: [msg, kwargs]
     handler |-> <<>>,              \* the calls of self.handler: [msg, error]
     raised |-> NoError]            \* the exception that left invoke

\* the record of one Param.parse call
Parsed(iv, p, tokens_) == [iv EXCEPT !.parses = Append(@, [name |-> p.name, raw |-> tokens_])]

\* "passed_args[param.name] = await param.parse(...)": r is what parse gave
Assign(iv, p, tokens_, r) ==
    IF r.err # NoError
    THEN [Parsed(iv, p, tokens_) EXCEPT !.error = r.err]
    ELSE [Parsed(iv, p, tokens_) EXCEPT !.passed_args = Put(@, p.name, r.val)]

RECURSIVE ZipPositional(_, _, _)
\* "for (arg, param) in zip(args, params)"
ZipPositional(iv, params, k) ==
    IF iv.error # NoError \/ k > Len(params) \/ k > Len(iv.tokens.args) THEN iv
    ELSE ZipPositional(
             Assign(iv, params[k], <<iv.tokens.args[k]>>,
                    ParamParse(params[k], <<iv.tokens.args[k]>>)),
             params, k + 1)

RECURSIVE FillPositionalAlways(_, _, _)
\* a fill loop that gives every positional Param without a token its default,
\* required or not
FillPositionalAlways(iv, params, k) ==
    IF k > Len(params) THEN iv
    ELSE IF ~IsNone(iv.passed_args, params[k].name)
         THEN FillPositionalAlways(iv, params, k + 1)
         ELSE FillPositionalAlways(
                  [iv EXCEPT !.passed_args = Put(@, params[k].name, params[k].default)],
                  params, k + 1)

RECURSIVE FillPositional(_, _, _)
\* "for param in params: if passed_args.get(param.name) is None"
FillPositional(iv, params, k) ==
    IF k > Len(params) THEN iv
    ELSE IF ~IsNone(iv.passed_args, params[k].name)
         THEN FillPositional(iv, params, k + 1)
         ELSE IF ~params[k].required
              THEN FillPositional(
                       [iv EXCEPT !.passed_args = Put(@, params[k].name, params[k].default)],
                       params, k + 1)
              ELSE [iv EXCEPT !.error = E_NotEnough]

\* dict.get(key) of the flag mapping: <<>> is None
KwGet(kwargs, key) == IF key \in DOMAIN kwargs THEN <<kwargs[key]>> ELSE <<>>

\* the raw tokens a flag Param is parsed from, <<>> (None) when the condition
\*   (kwarg := kwargs.get(v.name)) is not None
\*     or (v.short is not None and (skwarg := kwargs.get(v.short)) is not None)
\* is false; "or" evaluates its right side only when its left side is false
FlagTokens(v, kwargs) ==
    LET kwarg == KwGet(kwargs, v.name)
        skwarg == IF kwarg = <<>> /\ v.short # <<>> THEN KwGet(kwargs, v.short[1]) ELSE <<>>
    IN IF kwarg # <<>> \/ skwarg # <<>>
       THEN <<(IF kwarg # <<>> THEN kwarg[1] ELSE <<>>)
              \o (IF skwarg # <<>> THEN skwarg[1] ELSE <<>>)>>
       ELSE <<>>

\* one iteration of "for v in kwparams.values()": parsed is FlagTokens
BindFlag(iv, v, parsed) ==
    IF parsed = <<>>
    THEN [iv EXCEPT !.error = E_NotEnough]
    ELSE Assign(iv, v, parsed[1], ParamParse(v, parsed[1]))

RECURSIVE BindFlags(_, _, _)
\* "for v in kwparams.values()"
BindFlags(iv, kwparams, k) ==
    IF iv.error # NoError \/ k > Len(kwparams) THEN iv
    ELSE BindFlags(BindFlag(iv, kwparams[k], FlagTokens(kwparams[k], iv.tokens.kwargs)),
                   kwparams, k + 1)

\* the three loops of the try block; each runs unless an earlier one raised
BindZip(iv) == ZipPositional(iv, Positional(iv.cmd.args), 1)
BindFill(iv) ==
    IF iv.error # NoError THEN iv ELSE FillPositional(iv, Positional(iv.cmd.args), 1)
BindKw(iv) ==
    IF iv.error # NoError THEN iv ELSE BindFlags(iv, KwParams(iv.cmd.args), 1)

\* the binding of every declared parameter: the try block up to the call of func
Bind(iv) == BindKw(BindFill(BindZip(iv)))

\* "await self.func(msg, **passed_args)", reached unless the binding raised
CallFunc(iv) ==
    IF iv.error # NoError THEN iv
    ELSE [iv EXCEPT !.func = Append(@, [msg |-> iv.msg, kwargs |-> iv.passed_args]),
                    !.error = IF iv.cmd.func = "raises" THEN E_Func ELSE NoError]

\* an except clause that calls the error handler and re-raises all the same
ExceptReraise(iv) ==
    IF iv.error = NoError THEN iv
    ELSE IF iv.cmd.handler # "None"
         THEN [iv EXCEPT !.handler = Append(@, [msg |-> iv.msg, error |-> iv.error]),
                         !.raised = IF iv.cmd.handler = "raises" THEN E_Handler ELSE iv.error]
         ELSE [iv EXCEPT !.raised = iv.error]

\* "except Exception as e": the error handler's call, or the re-raise
Except(iv) ==
    IF iv.error = NoError THEN iv
    ELSE IF iv.cmd.handler # "None"
         THEN [iv EXCEPT !.handler = Append(@, [msg |-> iv.msg, error |-> iv.error]),
                         !.raised = IF iv.cmd.handler = "raises" THEN E_Handler ELSE NoError]
         ELSE [iv EXCEPT !.raised = iv.error]

\* Command.invoke(self, msg, prefix)
Invoke(cmd, text, pfx) ==
    Except(CallFunc(Bind(StartInvoke(cmd, text, pfx))))

(***************************************************************************)
(* Client: the command registry and the dispatch of a message.             *)
(***************************************************************************)
RECURSIVE RegisterNamesUnchecked(_, _, _)
\* a registration loop without the test "if i in self.commands"
RegisterNamesUnchecked(registry, cmd, i) ==
    IF i > Len(cmd.names) THEN [commands |-> registry, err |-> NoError]
    ELSE RegisterNamesUnchecked(Put(registry, cmd.names[i], cmd), cmd, i + 1)

RECURSIVE RegisterNames(_, _, _)
\* the loop "for i in command.names" of add_command: the registry it leaves
\* and the error it raised
RegisterNames(registry, cmd, i) ==
    IF i > Len(cmd.names) THEN [commands |-> registry, err |-> NoError]
    ELSE IF cmd.names[i] \in DOMAIN registry
         THEN [commands |-> registry, err |-> E_Duplicate]
         ELSE RegisterNames(Put(registry, cmd.names[i], cmd), cmd, i + 1)

\* the pair add_command appends to self.listeners: its two lambdas close
\* over command and prefix
Listener(cmd, pfx) == [cmd |-> cmd, prefix |-> pfx]

\* the predicate of that pair
\*   m.content.startswith(prefix)
\*     and m.content[len(prefix):].split()[0] in command.names
\* "True", "False", or the IndexError of [0] on an empty list
Pred(l, text) ==
    IF ~StartsWith(text, l.prefix) THEN "False"
    ELSE LET words == Split(Drop(text, Len(l.prefix)))
         IN IF words = <<>> THEN E_Index
            ELSE IF \E i \in 1..Len(l.cmd.names) : l.cmd.names[i] = words[1]
                 THEN "True" ELSE "False"

\* what handle_message has done so far
Dispatched(done, err) == [calls |-> done, raised |-> err]

\* "await listener(msg)": iv is the Command.invoke call it makes
Listened(d, iv) == Dispatched(Append(d.calls, iv), iv.raised)

\* one iteration of "for pred, listener in self.listeners": p is pred(msg)
DispatchOne(d, l, text, p) ==
    IF p = E_Index THEN Dispatched(d.calls, E_Index)
    ELSE IF p = "False" THEN d
    ELSE Listened(d, Invoke(l.cmd, text, l.prefix))

RECURSIVE Dispatch(_, _, _, _)
\* the loop of handle_message, which an exception ends
Dispatch(ls, text, i, d) ==
    IF d.raised # NoError \/ i > Len(ls) THEN d
    ELSE Dispatch(ls, text, i + 1, DispatchOne(d, ls[i], text, Pred(ls[i], text)))

(***************************************************************************)
(* The universes the specifications draw from.                             *)
(***************************************************************************)
Bang == <<"!">>

\* a positional Param and a flag Param, as param() builds them
PositionalParam(name, parser, required, default) ==
    ParamInit(name, parser, required, default, FALSE, <<>>, <<>>).val
FlagParam(name, parser, required, default, multiple, short) ==
    ParamInit(name, parser, required, default, multiple, short, <<TRUE>>).val

\* the Commands added to the Client: every list of at most MaxNames names,
\* one required positional string parameter, no error handler
ClientNames == {<<"a">>, <<"b">>}
ClientCmds ==
    {[names |-> ns,
      args |-> <<PositionalParam(<<"x">>, StringParser, <<>>, PyNone)>>,
      func |-> "returns",
      handler |-> "None"] : ns \in SeqsUpTo(ClientNames, MaxNames) \ {<<>>}}

MsgAlphabet == {"!", "a", "b", " ", "\t"}
Messages == SeqsUpTo(MsgAlphabet, MaxMessage)

Unused == <<>>

(***************************************************************************)
(* Spec: a Client, to which Commands are added and messages dispatched.    *)
(***************************************************************************)
Init ==
    /\ prefix \in {<<>>, <<Bang>>}
    /\ commands = <<>>
    /\ listeners = <<>>
    /\ op = "idle"
    /\ msg = <<>>
    /\ calls = <<>>
    /\ raised = NoError
    /\ command = Unused /\ content = Unused /\ tokens = Unused
    /\ init_args = Unused /\ param = Unused /\ raw = Unused /\ bound = Unused
    /\ extensions = Unused /\ ws = Unused /\ tasks = Unused

\* the end of add_command: r is what the loop over command.names left
Registered(cmd, r) ==
    /\ commands' = r.commands
    /\ raised' = r.err
    /\ listeners' = IF r.err = NoError
                    THEN Append(listeners, Listener(cmd, prefix[1]))
                    ELSE listeners

\* Client.add_command(command)
AddCommand(cmd) ==
    /\ op = "idle"
    /\ op' = "add_command"
    /\ msg' = <<>>
    /\ calls' = <<>>
    /\ command' = cmd
    /\ IF prefix = <<>>
       THEN /\ raised' = E_NoPrefix
            /\ UNCHANGED <<commands, listeners>>
       ELSE Registered(cmd, RegisterNames(commands, cmd, 1))
    /\ UNCHANGED <<extensions, ws, tasks, prefix, content, tokens, init_args, param, raw, bound>>

\* what handle_message leaves: d is what its loop did
Handled(text, d) ==
    /\ op' = "handle_message"
    /\ msg' = text
    /\ calls' = d.calls
    /\ raised' = d.raised
    /\ UNCHANGED <<extensions, ws, tasks, prefix, commands, listeners, command, content, tokens,
                   init_args, param, raw, bound>>

\* Client.handle_message(message)
HandleMessage(text) ==
    /\ op = "idle"
    /\ Handled(text, Dispatch(listeners, text, 1, Dispatched(<<>>, NoError)))

\* the caller of the operation goes on: what the operation did is forgotten
Return ==
    /\ op # "idle"
    /\ op' = "idle"
    /\ msg' = <<>>
    /\ calls' = <<>>
    /\ raised' = NoError
    /\ command' = Unused
    /\ UNCHANGED <<extensions, ws, tasks, prefix, commands, listeners, content, tokens,
                   init_args, param, raw, bound>>

\* the program adds a Command
Register == op = "idle" /\ \E cmd \in ClientCmds : AddCommand(cmd)

\* the gateway delivers a message
Receive == op = "idle" /\ \E text \in Messages : HandleMessage(text)

Next == Register \/ Receive \/ Return

Spec == Init /\ [][Next]_vars

(***************************************************************************)
(* InvokeSpec: one Command, built with its Params and its error handler,   *)
(* is invoked on one message.                                              *)
(***************************************************************************)
DefaultValue == PyStr(<<"d">>)
IntParser == NumberParser(FALSE, TRUE)

\* the positional Params named name that the Commands declare
PositionalParams(name) ==
    {PositionalParam(name, StringParser, <<>>, PyNone),
     PositionalParam(name, IntParser, <<>>, PyNone),
     PositionalParam(name, StringParser, <<>>, DefaultValue),
     PositionalParam(name, IntParser, <<FALSE>>, PyNone)}

\* the flag Params they declare: --n, with or without the short alias -s
FlagParams ==
    {FlagParam(<<"n">>, StringParser, <<>>, default, multiple, short) :
        default \in {PyNone, DefaultValue}, multiple \in BOOLEAN,
        short \in {<<>>, <<<<"s">>>>}}

ArgLists ==
    {<<>>}
    \cup {<<p>> : p \in PositionalParams(<<"p">>)}
    \cup {<<p, q>> : p \in PositionalParams(<<"p">>), q \in PositionalParams(<<"q">>)}
    \cup {<<n>> : n \in FlagParams}
    \cup {<<p, n>> : p \in PositionalParams(<<"p">>), n \in FlagParams}

InvokeCmds ==
    {[names |-> <<<<"c">>>>, args |-> args, func |-> f, handler |-> h] :
        args \in ArgLists, f \in {"returns", "raises"}, h \in {"None", "returns", "raises"}}

\* the items of a command line
Items == {<<"x">>, <<"1">>, <<"-", "-", "n">>, <<"-", "-", "n", " ", "x">>,
          <<"-", "s">>, <<"-", "s", " ", "1">>}

RECURSIVE Join(_)
\* every item after a space
Join(items) == IF items = <<>> THEN <<>> ELSE <<" ">> \o Head(items) \o Join(Tail(items))

\* prefix, keyword and at most MaxItems items
InvokeMessages == {Bang \o <<"c">> \o Join(items) : items \in SeqsUpTo(Items, MaxItems)}

InvokeInit ==
    /\ prefix = <<Bang>>
    /\ command \in InvokeCmds
    /\ msg \in InvokeMessages
    /\ op = "idle"
    /\ calls = <<>>
    /\ raised = NoError
    /\ commands = Unused /\ listeners = Unused /\ content = Unused /\ tokens = Unused
    /\ init_args = Unused /\ param = Unused /\ raw = Unused /\ bound = Unused
    /\ extensions = Unused /\ ws = Unused /\ tasks = Unused

\* what Command.invoke leaves
Invoked(iv) ==
    /\ op' = "invoke"
    /\ calls' = <<iv>>
    /\ raised' = iv.raised
    /\ UNCHANGED <<extensions, ws, tasks, prefix, commands, listeners, msg, command, content, tokens,
                   init_args, param, raw, bound>>

\* await command.invoke(msg, prefix)
DoInvoke == op = "idle" /\ Invoked(Invoke(command, msg, prefix[1]))

InvokeNext == DoInvoke

InvokeSpec == InvokeInit /\ [][InvokeNext]_vars

(***************************************************************************)
(* TokSpec: parse_content is applied to one text.                          *)
(***************************************************************************)
TokAlphabet == {"a", "-", " ", "\"", "\\"}

\* a flag occurrence: --name or -name, with a value word or without
FlagItems ==
    {[long |-> l, name |-> n, value |-> v] :
        l \in BOOLEAN, n \in {<<"a">>, <<"b">>}, v \in {<<>>, <<<<"x">>>>}}

\* the text of one flag occurrence
RenderItem(it) ==
    (IF it.long THEN <<"-", "-">> ELSE <<"-">>) \o it.name
    \o (IF it.value = <<>> THEN <<>> ELSE <<" ">> \o it.value[1])

RECURSIVE Render(_)
\* the command line of a list of flag occurrences, one space between two
Render(items) ==
    IF items = <<>> THEN <<>>
    ELSE IF Len(items) = 1 THEN RenderItem(items[1])
    ELSE RenderItem(items[1]) \o <<" ">> \o Render(Tail(items))

FlagLines == SeqsUpTo(FlagItems, MaxItems)

\* a quoted text on its own, or as the value of a short or of a long flag
QuotedBodies == SeqsUpTo({" ", "a"}, MaxQuoted)
QuotedHeads == {<<>>, <<"-", "a", " ">>, <<"-", "-", "a", " ">>}
QuotedLines == {h \o <<"\"">> \o b \o <<"\"">> : h \in QuotedHeads, b \in QuotedBodies}

Contents ==
    SeqsUpTo(TokAlphabet, MaxContent) \cup {Render(items) : items \in FlagLines}
    \cup QuotedLines

TokInit ==
    /\ content \in Contents
    /\ tokens = [args |-> <<>>, kwargs |-> <<>>]
    /\ op = "idle"
    /\ prefix = Unused /\ commands = Unused /\ listeners = Unused /\ msg = Unused
    /\ calls = Unused /\ raised = Unused /\ command = Unused
    /\ init_args = Unused /\ param = Unused /\ raw = Unused /\ bound = Unused
    /\ extensions = Unused /\ ws = Unused /\ tasks = Unused

\* tokens = parse_content(content)
ParseContent ==
    /\ op = "idle"
    /\ op' = "parse_content"
    /\ tokens' = parse_content(content)
    /\ UNCHANGED <<extensions, ws, tasks, prefix, commands, listeners, msg, calls, raised, command, content,
                   init_args, param, raw, bound>>

TokNext == ParseContent

TokSpec == TokInit /\ [][TokNext]_vars

(***************************************************************************)
(* ParamSpec: a Param is constructed and, if construction accepts it,      *)
(* binds one list of raw tokens.                                           *)
(***************************************************************************)
Pending == [err |-> "pending", val |-> PyNone]

\* the arguments Param.__init__ is called with
InitArgs ==
    [parser : {StringParser, IntParser, NumberParser(FALSE, FALSE), BoolParser},
     required : {<<>>, <<TRUE>>, <<FALSE>>},
     default : {PyNone, DefaultValue},
     multiple : BOOLEAN,
     short : {<<>>, <<<<"s">>>>},
     flag : {<<>>, <<TRUE>>, <<FALSE>>}]

\* the raw tokens a Param is handed
RawTokens == {<<>>, <<"1">>, <<"2">>, <<"-", "1">>, <<"n">>}
RawLists == SeqsUpTo(RawTokens, MaxTokens)

ParamInitState ==
    /\ init_args \in InitArgs
    /\ raw \in RawLists
    /\ param = Pending
    /\ bound = Pending
    /\ op = "idle"
    /\ prefix = Unused /\ commands = Unused /\ listeners = Unused /\ msg = Unused
    /\ calls = Unused /\ raised = Unused /\ command = Unused
    /\ content = Unused /\ tokens = Unused
    /\ extensions = Unused /\ ws = Unused /\ tasks = Unused

\* param = Param("p", **init_args)
Construct ==
    /\ op = "idle"
    /\ op' = "__init__"
    /\ param' = ParamInit(<<"p">>, init_args.parser, init_args.required, init_args.default,
                          init_args.multiple, init_args.short, init_args.flag)
    /\ UNCHANGED <<extensions, ws, tasks, prefix, commands, listeners, msg, calls, raised, command, content,
                   tokens, init_args, raw, bound>>

\* bound = await param.parse(raw)
Parse ==
    /\ op = "__init__"
    /\ param.err = NoError
    /\ op' = "parse"
    /\ bound' = ParamParse(param.val, raw)
    /\ UNCHANGED <<extensions, ws, tasks, prefix, commands, listeners, msg, calls, raised, command, content,
                   tokens, init_args, param, raw>>

ParamNext == Construct \/ Parse

ParamSpec == ParamInitState /\ [][ParamNext]_vars

(***************************************************************************)
(* ParserSpec: a value parser is handed one token.                         *)
(***************************************************************************)
\* the two casings of a character
BothCases(c) ==
    {c} \cup {UpperCase[k] : k \in {j \in 1..Len(LowerCase) : LowerCase[j] = c}}

\* every letter-casing of a lower-case word
Casings(word) ==
    {s \in [1..Len(word) -> UNION {BothCases(word[k]) : k \in 1..Len(word)}] :
        \A k \in 1..Len(word) : s[k] \in BothCases(word[k])}

\* tokens outside the vocabulary of BoolParser
OtherWords ==
    {<<"m", "a", "y", "b", "e">>, <<"2">>, <<"o", "n">>, <<"o", "f", "f">>,
     <<"y", "e">>, <<"t", "r", "u">>, <<"0", "0">>, <<"y", "e", "s", " ">>,
     <<" ">>, <<"N", "O", "P", "E">>}

\* the tokens handed to BoolParser
BoolTokens == UNION {Casings(w) : w \in BoolTrue \cup BoolFalse} \cup OtherWords

\* the tokens handed to a NumberParser
NumberAlphabet == {"-", "+", "0", "5", " ", "a"}
NumberTokens == SeqsUpTo(NumberAlphabet, MaxArg)

\* the parsers, with the tokens each is handed
ParserCalls ==
    ({BoolParser} \X BoolTokens)
    \cup ({NumberParser(d, g) : d \in BOOLEAN, g \in BOOLEAN} \X NumberTokens)
    \cup ({StringParser} \X OtherWords)

ParserInit ==
    /\ \E c \in ParserCalls : init_args = [parser |-> c[1]] /\ raw = <<c[2]>>
    /\ bound = Pending
    /\ op = "idle"
    /\ prefix = Unused /\ commands = Unused /\ listeners = Unused /\ msg = Unused
    /\ calls = Unused /\ raised = Unused /\ command = Unused
    /\ content = Unused /\ tokens = Unused /\ param = Unused
    /\ extensions = Unused /\ ws = Unused /\ tasks = Unused

\* bound = await parser.parse(raw[0])
ParserCall ==
    /\ op = "idle"
    /\ op' = "parser.parse"
    /\ bound' = ParserParse(init_args.parser, raw[1])
    /\ UNCHANGED <<extensions, ws, tasks, prefix, commands, listeners, msg, calls, raised, command, content,
                   tokens, init_args, param, raw>>

ParserNext == ParserCall

ParserSpec == ParserInit /\ [][ParserNext]_vars

(***************************************************************************)
(* ExtSpec: extensions are loaded into a Client, which then handles        *)
(* messages.  An Extension is [commands |-> name -> Command].              *)
(***************************************************************************)
E_Attribute == "AttributeError: 'Command' object has no attribute 'invoke_with_client'"
E_Import == "the import of the extension's module failed"

RECURSIVE ExtCommands(_, _, _)
\* Extension.command applied to cmds[i], cmds[i + 1], ... in turn: the
\* extension's registry when its module has run, and the error that ended it
ExtCommands(registry, cmds, i) ==
    IF i > Len(cmds) THEN [commands |-> registry, err |-> NoError]
    ELSE IF RegisterNames(registry, cmds[i], 1).err # NoError
         THEN [commands |-> RegisterNames(registry, cmds[i], 1).commands, err |-> E_Import]
         ELSE ExtCommands(RegisterNames(registry, cmds[i], 1).commands, cmds, i + 1)

\* the ext objects of the modules that import: at most two commands each
Exts ==
    {[commands |-> ExtCommands(<<>>, cmds, 1).commands] :
        cmds \in {cs \in SeqsUpTo(ClientCmds, 2) : ExtCommands(<<>>, cs, 1).err = NoError}}

\* the pair load appends to self.listeners: its lambdas close over ext and prefix
ExtListener(ext, pfx) == [ext |-> ext, prefix |-> pfx]

\* its predicate: m.content.startswith(prefix)
ExtPred(l, text) == StartsWith(text, l.prefix)

\* command.invoke_with_client(client, msg, prefix): Command has no such
\* attribute, the lookup raises
InvokeWithClient(cmd, text, pfx) == E_Attribute

\* Extension.invoke(self, client, msg, prefix): the exception it raises
ExtInvoke(ext, text, pfx) ==
    IF SplitSpaceFirst(Drop(text, Len(pfx))) \in DOMAIN ext.commands
    THEN InvokeWithClient(ext.commands[SplitSpaceFirst(Drop(text, Len(pfx)))], text, pfx)
    ELSE NoError

RECURSIVE ExtDispatch(_, _, _, _)
\* the loop of handle_message over the listeners load appended; no
\* Command.invoke call is ever made, so d.calls stays as it is
ExtDispatch(ls, text, i, d) ==
    IF d.raised # NoError \/ i > Len(ls) THEN d
    ELSE IF ~ExtPred(ls[i], text) THEN ExtDispatch(ls, text, i + 1, d)
    ELSE ExtDispatch(ls, text, i + 1,
                     Dispatched(d.calls, ExtInvoke(ls[i].ext, text, ls[i].prefix)))

ExtInit ==
    /\ prefix \in {<<>>, <<Bang>>}
    /\ extensions = <<>>
    /\ listeners = <<>>
    /\ op = "idle"
    /\ msg = <<>>
    /\ calls = <<>>
    /\ raised = NoError
    /\ commands = Unused /\ command = Unused /\ content = Unused /\ tokens = Unused
    /\ init_args = Unused /\ param = Unused /\ raw = Unused /\ bound = Unused
    /\ ws = Unused /\ tasks = Unused

\* Client.load(path), path the module that defines ext
Load(ext) ==
    /\ op = "idle"
    /\ Len(extensions) < MaxExtensions
    /\ op' = "load"
    /\ IF prefix = <<>>
       THEN /\ raised' = E_NoPrefix
            /\ UNCHANGED <<extensions, listeners>>
       ELSE /\ raised' = NoError
            /\ extensions' = Append(extensions, ext)
            /\ listeners' = Append(listeners, ExtListener(ext, prefix[1]))
    /\ UNCHANGED <<ws, tasks, prefix, commands, msg, calls, command, content, tokens,
                   init_args, param, raw, bound>>

\* Client.handle_message(message) of a Client with extensions only
ExtHandleMessage(text) ==
    /\ op = "idle"
    /\ op' = "handle_message"
    /\ msg' = text
    /\ calls' = ExtDispatch(listeners, text, 1, Dispatched(<<>>, NoError)).calls
    /\ raised' = ExtDispatch(listeners, text, 1, Dispatched(<<>>, NoError)).raised
    /\ UNCHANGED <<extensions, ws, tasks, prefix, commands, listeners, command, content,
                   tokens, init_args, param, raw, bound>>

\* the caller of the operation goes on
ExtReturn ==
    /\ op # "idle"
    /\ op' = "idle"
    /\ msg' = <<>>
    /\ calls' = <<>>
    /\ raised' = NoError
    /\ UNCHANGED <<extensions, ws, tasks, prefix, commands, listeners, command, content,
                   tokens, init_args, param, raw, bound>>

ExtLoad == op = "idle" /\ \E ext \in Exts : Load(ext)

ExtReceive == op = "idle" /\ \E text \in Messages : ExtHandleMessage(text)

ExtNext == ExtLoad \/ ExtReceive \/ ExtReturn

ExtSpec == ExtInit /\ [][ExtNext]_vars

(***************************************************************************)
(* LoopSpec: Client.start receives the messages of the gateway and creates *)
(* one task per message; the event loop runs the tasks.  A task is         *)
(* [content, state, calls, raised]: the content of its message, "pending"  *)
(* or "done", the Command.invoke calls its handle_message made and the     *)
(* exception the task ended with.                                          *)
(***************************************************************************)
\* the commands the program registered before start: one whose binding can
\* fail and one whose func raises, neither with an error handler
CmdA ==
    [names |-> << <<"a">> >>,
     args |-> <<PositionalParam(<<"x">>, IntParser, <<>>, PyNone)>>,
     func |-> "returns",
     handler |-> "None"]
CmdB == [names |-> << <<"b">> >>, args |-> <<>>, func |-> "raises", handler |-> "None"]
Startups == {<<CmdA>>, <<CmdB>>, <<CmdA, CmdB>>, <<CmdB, CmdA>>}

RECURSIVE AddCommands(_, _, _)
\* add_command for cmds[i], cmds[i + 1], ...: [commands, listeners] after them
AddCommands(client, cmds, i) ==
    IF i > Len(cmds) THEN client
    ELSE AddCommands(
             [commands |-> RegisterNames(client.commands, cmds[i], 1).commands,
              listeners |-> Append(client.listeners, Listener(cmds[i], Bang))],
             cmds, i + 1)

\* the contents of the messages the gateway delivers
Frames == {<<"!", "a", " ", "5">>, <<"!", "a", " ", "x">>, <<"!", "b">>, <<"!">>}

\* what the gateway delivers over one connection
Deliveries == SeqsUpTo(Frames, MaxFrames)

\* create_task(self.handle_message(msg)): the new task
CreateTask(text) == [content |-> text, state |-> "pending", calls |-> <<>>, raised |-> NoError]

\* the task when its handle_message has run: d is what the loop of
\* handle_message did
Finished(task, d) == [task EXCEPT !.state = "done", !.calls = d.calls, !.raised = d.raised]

\* what start is awaiting the task for: nothing, create_task does not await it
AwaitedException(d) == d.raised

\* handle_message for every startup and every message the gateway may
\* deliver: what its loop does, by the listeners and the message's content
Handling ==
    [ls \in {AddCommands([commands |-> <<>>, listeners |-> <<>>], cmds, 1).listeners :
                cmds \in Startups},
     text \in Frames |-> Dispatch(ls, text, 1, Dispatched(<<>>, NoError))]

\* the exception a task's handle_message passes to start's loop: none, it
\* stays in the task that create_task made
TaskException(d) == NoError

LoopInit ==
    /\ prefix = <<Bang>>
    /\ \E cmds \in Startups :
          /\ commands = AddCommands([commands |-> <<>>, listeners |-> <<>>], cmds, 1).commands
          /\ listeners = AddCommands([commands |-> <<>>, listeners |-> <<>>], cmds, 1).listeners
    /\ ws = <<>>
    /\ tasks = <<>>
    /\ raised = NoError
    /\ op = "run"
    /\ extensions = <<>>
    /\ msg = Unused /\ calls = Unused /\ command = Unused
    /\ content = Unused /\ tokens = Unused
    /\ init_args = Unused /\ param = Unused /\ raw = Unused /\ bound = Unused

\* "self.ws = await self.session.ws_connect(self.gateway_url)" in start:
\* frames is what the gateway delivers over the connection
Connect(frames) ==
    /\ op = "run"
    /\ op' = "start"
    /\ ws' = frames
    /\ UNCHANGED <<extensions, tasks, prefix, commands, listeners, msg, calls, raised,
                   command, content, tokens, init_args, param, raw, bound>>

StartConnect == op = "run" /\ \E frames \in Deliveries : Connect(frames)

\* one iteration of "async for payload in self.ws" in start, which runs
\* while no exception has left it
StartReceive ==
    /\ op = "start"
    /\ raised = NoError
    /\ ws # <<>>
    /\ ws' = Tail(ws)
    /\ tasks' = Append(tasks, CreateTask(Head(ws)))
    /\ UNCHANGED <<extensions, prefix, commands, listeners, op, msg, calls, raised, command,
                   content, tokens, init_args, param, raw, bound>>

\* what running task i leaves: d is what the loop of its handle_message did
Ran(i, d) ==
    /\ tasks' = [tasks EXCEPT ![i] = Finished(@, d)]
    /\ raised' = IF raised # NoError THEN raised ELSE TaskException(d)

\* the event loop runs task i: handle_message of its message
RunTask(i) ==
    /\ i <= Len(tasks)
    /\ tasks[i].state = "pending"
    /\ Ran(i, Handling[listeners, tasks[i].content])
    /\ UNCHANGED <<extensions, ws, prefix, commands, listeners, op, msg, calls, command,
                   content, tokens, init_args, param, raw, bound>>

RunSomeTask == \E i \in 1..MaxFrames : RunTask(i)

LoopNext == StartConnect \/ StartReceive \/ RunSomeTask

\* the event loop resumes start when a message is there and runs every
\* task that was created
LoopSpec ==
    /\ LoopInit
    /\ [][LoopNext]_vars
    /\ WF_vars(StartConnect)
    /\ WF_vars(StartReceive)
    /\ \A i \in 1..MaxFrames : WF_vars(RunTask(i))

(***************************************************************************)
(* The registry and the dispatch (Spec).                                   *)
(***************************************************************************)
\* one of the names of cmd is a key of registry
Collides(cmd, registry) ==
    \E i \in 1..Len(cmd.names) : cmd.names[i] \in DOMAIN registry

\* C1: add_command with a Command one of whose names is already registered
\* fails and leaves Client.commands exactly as it was before the call,
\* wherever the colliding name stands in the Command's names.
C1_RegistrationAtomic ==
    [][(op' = "add_command" /\ prefix # <<>> /\ Collides(command', commands))
          => (raised' = E_Duplicate /\ commands' = commands)]_vars

\* the words that follow the prefix in a message that starts with it
WordsAfterPrefix(text) == Split(Drop(text, Len(prefix[1])))

\* the message starts with the configured prefix and its leading keyword is
\* a registered name
MatchesRegistered(text) ==
    /\ prefix # <<>>
    /\ StartsWith(text, prefix[1])
    /\ WordsAfterPrefix(text) # <<>>
    /\ WordsAfterPrefix(text)[1] \in DOMAIN commands

\* C2: handle_message on a content that does not start with the prefix, or
\* whose leading keyword matches no registered name (a content that is the
\* prefix alone or followed only by whitespace included), invokes no command
\* and raises no error.
C2_NoMatchIsNoOp ==
    (op = "handle_message" /\ ~MatchesRegistered(msg))
        => (calls = <<>> /\ raised = NoError)

RECURSIVE LeadingSpaces(_)
\* how many whitespace characters the text begins with
LeadingSpaces(text) ==
    IF text # <<>> /\ IsSpace(text[1]) THEN 1 + LeadingSpaces(Tail(text)) ELSE 0

\* the content that follows prefix + keyword, the keyword being the first
\* word after the prefix
AfterKeyword(text) ==
    Drop(text, Len(prefix[1]) + LeadingSpaces(Drop(text, Len(prefix[1])))
               + Len(WordsAfterPrefix(text)[1]))

\* C9: for every message the dispatch predicate routes to a Command, the
\* text Command.invoke tokenizes is exactly the content that follows
\* prefix + matched name, whatever whitespace separates prefix, keyword and
\* arguments.
C9_TokenizesAfterKeyword ==
    op = "handle_message"
        => \A i \in 1..Len(calls) : calls[i].text = AfterKeyword(msg)

(***************************************************************************)
(* Command.invoke (InvokeSpec).                                            *)
(***************************************************************************)
\* the flag mapping holds neither the long name nor the short alias of v
NotSupplied(v, kwargs) ==
    /\ v.name \notin DOMAIN kwargs
    /\ v.short # <<>> => v.short[1] \notin DOMAIN kwargs

\* a flag Param that is not required and declares a default
OptionalFlag(v) == v.flag /\ ~v.required /\ v.default # PyNone

\* C3: a Command whose parameters are flags that are not required and have a
\* non-null default, invoked with a text in which neither their long name
\* nor their short alias occurs, calls the handler with each parameter bound
\* to its default; the binding does not fail.
C3_AbsentFlagGetsDefault ==
    (/\ op = "invoke"
     /\ command.args # <<>>
     /\ \A k \in 1..Len(command.args) :
           /\ OptionalFlag(command.args[k])
           /\ NotSupplied(command.args[k], calls[1].tokens.kwargs))
        => /\ Len(calls[1].func) = 1
           /\ \A k \in 1..Len(command.args) :
                 /\ command.args[k].name \in DOMAIN calls[1].func[1].kwargs
                 /\ calls[1].func[1].kwargs[command.args[k].name] = command.args[k].default
           /\ calls[1].error \in {NoError, E_Func}

\* the long name and the short alias of v are both keys of the flag mapping
BothSupplied(v, kwargs) ==
    v.short # <<>> /\ v.name \in DOMAIN kwargs /\ v.short[1] \in DOMAIN kwargs

\* all long-name values followed by all short-alias values
Merged(v, kwargs) == kwargs[v.name] \o kwargs[v.short[1]]

\* the last raw token of a list
LastToken(tokens_) == tokens_[Len(tokens_)]

\* the strings of a list of raw tokens, as StringParser gives them
Strings(tokens_) == [i \in 1..Len(tokens_) |-> PyStr(tokens_[i])]

\* C4: for a flag parameter whose long name and short alias are both
\* supplied, the raw tokens bound are the long-name values followed by the
\* short-alias values; with multiple the bound value is that whole list,
\* without it the last element of the list.
C4_LongThenShort ==
    op = "invoke"
        => \A k \in 1..Len(command.args) : \A e \in 1..Len(calls[1].parses) :
              (/\ command.args[k].flag
               /\ calls[1].parses[e].name = command.args[k].name
               /\ BothSupplied(command.args[k], calls[1].tokens.kwargs))
                  => /\ calls[1].parses[e].raw
                           = Merged(command.args[k], calls[1].tokens.kwargs)
                     /\ calls[1].passed_args[command.args[k].name]
                           = IF command.args[k].multiple
                             THEN PyList(Strings(Merged(command.args[k],
                                                        calls[1].tokens.kwargs)))
                             ELSE PyStr(LastToken(Merged(command.args[k],
                                                           calls[1].tokens.kwargs)))

\* every declared parameter is among the keyword arguments of the call
AllBound(cmd, call) ==
    \A k \in 1..Len(cmd.args) : cmd.args[k].name \in DOMAIN call.kwargs

\* the handler is called at most once, and only with every parameter bound
\* and no failure before the call
HandlerAfterBinding(iv) ==
    /\ Len(iv.func) <= 1
    /\ Len(iv.func) = 1 =>
          /\ AllBound(iv.cmd, iv.func[1])
          /\ iv.func[1].msg = msg
          /\ iv.error = (IF iv.cmd.func = "raises" THEN E_Func ELSE NoError)
    /\ Len(iv.func) = 0 => iv.error # NoError

\* a failure goes to the registered error handler, once, with the message
ErrorHandlerCalled(iv) ==
    (iv.error # NoError /\ iv.cmd.handler # "None")
        => iv.handler = <<[msg |-> msg, error |-> iv.error]>>

\* without an error handler the failure reaches the caller
FailurePropagates(iv) ==
    (iv.error # NoError /\ iv.cmd.handler = "None")
        => (iv.handler = <<>> /\ raised = iv.error)

\* without a failure neither happens
NoFailure(iv) == iv.error = NoError => (iv.handler = <<>> /\ raised = NoError)

\* C6, as claimed: the handler is called at most once and only after every
\* declared parameter was bound; a failure with an error handler registered
\* is handed to it exactly once, with the original message, and nothing
\* reaches the caller; without one the failure reaches the caller.
C6_AsClaimed ==
    op = "invoke"
        => /\ HandlerAfterBinding(calls[1])
           /\ ErrorHandlerCalled(calls[1])
           /\ (calls[1].error # NoError /\ calls[1].cmd.handler # "None")
                 => raised = NoError
           /\ FailurePropagates(calls[1])
           /\ NoFailure(calls[1])

\* C6, amended: as claimed, except that what reaches the caller when an
\* error handler is registered is nothing if the error handler returns and
\* the error handler's own exception if it raises.
C6_FailureRouting ==
    op = "invoke"
        => /\ HandlerAfterBinding(calls[1])
           /\ ErrorHandlerCalled(calls[1])
           /\ (calls[1].error # NoError /\ calls[1].cmd.handler = "returns")
                 => raised = NoError
           /\ (calls[1].error # NoError /\ calls[1].cmd.handler = "raises")
                 => raised = E_Handler
           /\ FailurePropagates(calls[1])
           /\ NoFailure(calls[1])

\* a token fails to convert, the error handler is called with it and the
\* caller sees nothing
C6_Witness ==
    /\ op = "invoke"
    /\ calls[1].error = E_Literal
    /\ calls[1].func = <<>>
    /\ calls[1].handler = <<[msg |-> msg, error |-> E_Literal]>>
    /\ raised = NoError

\* whether token i of the positional tokens converts for positional Param i
ZippedConvert(params, args) ==
    \A k \in 1..Len(params) :
        k <= Len(args) => ParserParse(params[k].parser, args[k]).err = NoError

\* the Param.parse calls are those of the zip: Param k on token k, in order
ZippedInOrder(iv, params) ==
    \A k \in 1..Len(params) :
        (k <= Len(iv.tokens.args) /\ k <= Len(iv.parses))
            => iv.parses[k] = [name |-> params[k].name, raw |-> <<iv.tokens.args[k]>>]

\* a required positional Param has no token
RequiredWithoutToken(iv, params) ==
    \E k \in 1..Len(params) : k > Len(iv.tokens.args) /\ params[k].required

\* a called handler gets the default of every positional Param that is not
\* required and has no token
DefaultsPassed(iv, params) ==
    \A k \in 1..Len(params) :
        (k > Len(iv.tokens.args) /\ ~params[k].required /\ Len(iv.func) = 1)
            => iv.func[1].kwargs[params[k].name] = params[k].default

\* C10, as claimed: positional tokens are zipped against the positional
\* parameters in declaration order; if a required one has no token the
\* invocation fails with a missing-parameter error and the handler is not
\* called; one that is not required and has no token gets its default.
C10_AsClaimed ==
    op = "invoke"
        => /\ ZippedInOrder(calls[1], Positional(command.args))
           /\ RequiredWithoutToken(calls[1], Positional(command.args))
                 => (calls[1].error \in MissingParameterErrors /\ calls[1].func = <<>>)
           /\ DefaultsPassed(calls[1], Positional(command.args))

\* C10, amended: as claimed, except that the failure is the missing-parameter
\* error only if every supplied positional token converts; if one does not,
\* the invocation fails with that conversion error (the handler is not
\* called either way).
C10_PositionalBinding ==
    op = "invoke"
        => /\ ZippedInOrder(calls[1], Positional(command.args))
           /\ RequiredWithoutToken(calls[1], Positional(command.args))
                 => /\ calls[1].func = <<>>
                    /\ calls[1].error
                          \in (IF ZippedConvert(Positional(command.args),
                                                calls[1].tokens.args)
                               THEN MissingParameterErrors ELSE ConversionErrors)
           /\ DefaultsPassed(calls[1], Positional(command.args))

\* the first positional token is bound, the second Param is required and
\* has none: the invocation fails with "Not enough args"
C10_Witness ==
    /\ op = "invoke"
    /\ Len(Positional(command.args)) = 2
    /\ Positional(command.args)[2].required
    /\ Len(calls[1].tokens.args) = 1
    /\ Len(calls[1].parses) = 1
    /\ calls[1].error = E_NotEnough
    /\ calls[1].func = <<>>

\* the occurrences of the flag called name among items, in input order
RECURSIVE Occurrences(_, _)
Occurrences(items, name) ==
    IF items = <<>> THEN <<>>
    ELSE (IF items[1].name = name THEN <<items[1]>> ELSE <<>>)
         \o Occurrences(Tail(items), name)

\* one entry per occurrence under the flag's own name, in input order; the
\* entry of an occurrence with a value is that value
OneEntryPerOccurrence(items, kwargs) ==
    /\ DOMAIN kwargs = {items[k].name : k \in 1..Len(items)}
    /\ \A name \in DOMAIN kwargs :
          /\ Len(kwargs[name]) = Len(Occurrences(items, name))
          /\ \A k \in 1..Len(kwargs[name]) :
                Occurrences(items, name)[k].value # <<>>
                    => kwargs[name][k] = Occurrences(items, name)[k].value[1]

\* C5: every occurrence of a flag outside quotes, with a value after it or
\* without, adds exactly one entry to the value list of its own name, in
\* input order; none overwrites an earlier flag, is dropped or has its name
\* merged into the next flag's.
C5_EveryFlagOccurrenceKept ==
    op = "parse_content"
        => \A items \in FlagLines :
              content = Render(items) => OneEntryPerOccurrence(items, tokens.kwargs)

\* every raw token converts under the Param's parser
AllConvert(p, args) ==
    \A k \in 1..Len(args) : ParserParse(p.parser, args[k]).err = NoError

\* the per-token results, flattened in encounter order (each parser of
\* the library returns exactly one value per token)
Flattened(p, args) == [k \in 1..Len(args) |-> ParserParse(p.parser, args[k]).val[1]]

\* C7: Param.parse over a non-empty token list whose tokens all convert
\* returns the per-token results flattened in encounter order when multiple
\* is true and the last of them when multiple is false.
C7_LastWinsOrFullList ==
    (op = "parse" /\ raw # <<>> /\ AllConvert(param.val, raw))
        => bound = Ok(IF param.val.multiple
                      THEN PyList(Flattened(param.val, raw))
                      ELSE Flattened(param.val, raw)[Len(raw)])

\* two tokens with different values, multiple false: the second is bound
C7_Witness ==
    /\ op = "parse"
    /\ raw = <<<<"1">>, <<"2">>>>
    /\ param.val.parser = IntParser
    /\ ~param.val.multiple
    /\ bound = Ok(PyInt(2))

\* C8: Param.parse over zero resulting values, for every Param construction
\* accepts, fails with a missing-parameter error exactly when required is
\* true and resolves to the declared default when required is false.
C8_ZeroValues ==
    (op = "parse" /\ raw = <<>>)
        => IF param.val.required
           THEN bound.err \in MissingParameterErrors
           ELSE bound = Ok(param.val.default)

\* the invariant of a constructed Param
ParamInvariant(p) ==
    /\ ~(p.required /\ p.default # PyNone)
    /\ p.short # <<>> => p.flag

\* the defaulting of required and flag when they are not specified
Defaulting(a, p) ==
    /\ a.required = <<>> => (p.required <=> a.default = PyNone)
    /\ a.flag = <<>> => (p.flag <=> a.short # <<>>)

\* the two argument combinations construction is to refuse
Refused(a) ==
    \/ a.required = <<TRUE>> /\ a.default # PyNone
    \/ a.flag = <<FALSE>> /\ a.short # <<>>

\* C11: every Param construction accepts is not both required and with a
\* default, and is a flag if it has a short alias; required, unspecified, is
\* true exactly when no default is given and flag, unspecified, exactly when
\* a short alias is given; construction fails for required=true with a
\* default and for flag=false with a short alias.
C11_ParamConstruction ==
    op \in {"__init__", "parse"}
        => /\ param.err = NoError
                 => (ParamInvariant(param.val) /\ Defaulting(init_args, param.val))
           /\ Refused(init_args) => param.err # NoError

\* required and flag both unspecified, a default and a short alias given:
\* the Param is accepted, not required and a flag
C11_Witness ==
    /\ op = "__init__"
    /\ init_args.required = <<>> /\ init_args.flag = <<>>
    /\ init_args.default = DefaultValue /\ init_args.short # <<>>
    /\ param.err = NoError
    /\ ~param.val.required /\ param.val.flag

\* the locals of parse_content when its loop has consumed all of text
EndOfInput(text) == ParseLoop(ParseStart, text, 1)

\* the last element of a non-empty sequence
Last(q) == q[Len(q)]

\* the value buffer st.value is the token committed last: the last positional
\* token, or the last value of the pending flag
CommittedLast(st, buckets) ==
    IF st.name = <<>>
    THEN buckets.args # <<>> /\ Last(buckets.args) = st.value
    ELSE st.name \in DOMAIN buckets.kwargs /\ Last(buckets.kwargs[st.name]) = st.value

RECURSIVE TrailingBackslashes(_)
\* the number of backslashes text ends with
TrailingBackslashes(text) ==
    IF text = <<>> \/ Last(text) # "\\" THEN 0
    ELSE 1 + TrailingBackslashes(SubSeq(text, 1, Len(text) - 1))

\* text ends with a backslash that no backslash before it escapes
DanglingBackslash(text) == TrailingBackslashes(text) % 2 = 1

\* text is an opening quote followed by characters none of which is a quote
\* or a backslash
OpenQuoteOnly(text) ==
    /\ Len(text) >= 2
    /\ text[1] = "\""
    /\ \A k \in 2..Len(text) : text[k] \notin {"\"", "\\"}

\* C12: parse_content returns token buckets for every input; at end of input
\* the text accumulated in an unterminated quote is committed as a token
\* (positional or flag value) and a trailing backslash is dropped.
C12_MalformedInputAbsorbed ==
    op = "parse_content"
        => /\ DOMAIN tokens = {"args", "kwargs"}
           /\ (EndOfInput(content).quoted /\ EndOfInput(content).value # <<>>)
                 => CommittedLast(EndOfInput(content), tokens)
           /\ OpenQuoteOnly(content)
                 => tokens = [args |-> <<Tail(content)>>, kwargs |-> <<>>]
           /\ DanglingBackslash(content)
                 => tokens = parse_content(SubSeq(content, 1, Len(content) - 1))

\* an unterminated quote holding "a " and then a dangling backslash: one
\* positional token "a "
C12_Witness ==
    /\ op = "parse_content"
    /\ content = <<"\"", "a", " ", "\\">>
    /\ tokens = [args |-> << <<"a", " ">> >>, kwargs |-> <<>>]

\* the vocabulary of the boolean parser
TrueWords == {<<"y", "e", "s">>, <<"y">>, <<"t", "r", "u", "e">>, <<"t">>, <<"1">>, <<>>}
FalseWords == {<<"n", "o">>, <<"n">>, <<"f", "a", "l", "s", "e">>, <<"f">>, <<"0">>}

\* the call returned val
Returned(result, val) == result.err = NoError /\ result.val = val

\* arg is a letter-casing of one of words
CasingOf(arg, words) == \E w \in words : arg \in Casings(w)

\* C13: BoolParser.parse returns true for every letter-casing of yes, y,
\* true, t, 1 and the empty string, false for every letter-casing of no, n,
\* false, f and 0, and fails with a conversion error for every other token.
C13_BoolVocabulary ==
    (op = "parser.parse" /\ init_args.parser = BoolParser)
        => IF CasingOf(raw[1], TrueWords) THEN Returned(bound, <<PyBool(TRUE)>>)
           ELSE IF CasingOf(raw[1], FalseWords) THEN Returned(bound, <<PyBool(FALSE)>>)
           ELSE bound.err \in ConversionErrors

\* "FaLsE" is false
C13_Witness ==
    /\ op = "parser.parse"
    /\ init_args.parser = BoolParser
    /\ raw = << <<"F", "a", "L", "s", "E">> >>
    /\ bound = Ok(<<PyBool(FALSE)>>)

\* the characters of arg after an optional sign
Unsigned(arg) == IF arg # <<>> /\ arg[1] \in {"-", "+"} THEN Tail(arg) ELSE arg

\* arg is an optional sign and at least one decimal digit
IntegerToken(arg) ==
    /\ Unsigned(arg) # <<>>
    /\ \A k \in 1..Len(Unsigned(arg)) : Unsigned(arg)[k] \in {"0", "5"}

RECURSIVE Magnitude(_)
\* the number the digits denote
Magnitude(digits) ==
    IF digits = <<>> THEN 0
    ELSE 10 * Magnitude(SubSeq(digits, 1, Len(digits) - 1))
         + (IF Last(digits) = "5" THEN 5 ELSE 0)

\* the integer an integer token denotes
Denoted(arg) ==
    IF arg[1] = "-" THEN 0 - Magnitude(Unsigned(arg)) ELSE Magnitude(Unsigned(arg))

\* C14: in integer mode NumberParser with signed=false fails with a
\* conversion error for every token denoting a negative integer and returns
\* the integer for every token denoting a non-negative one; with signed=true
\* it returns the integer in both cases.
C14_SignedNumbers ==
    (op = "parser.parse" /\ init_args.parser.kind = "Number"
       /\ ~init_args.parser.decimal /\ IntegerToken(raw[1]))
        => IF ~init_args.parser.signed /\ Denoted(raw[1]) < 0
           THEN bound.err \in ConversionErrors
           ELSE Returned(bound, <<PyInt(Denoted(raw[1]))>>)

\* signed=false refuses "-5"
C14_Witness ==
    /\ op = "parser.parse"
    /\ init_args.parser = NumberParser(FALSE, FALSE)
    /\ raw = << <<"-", "5">> >>
    /\ bound = Err(E_Negative)

\* text starts with the lone dash sequence dashes and a space
LoneDash(text, dashes) ==
    /\ Len(text) > Len(dashes)
    /\ SubSeq(text, 1, Len(dashes)) = dashes
    /\ text[Len(dashes) + 1] = " "

\* buckets is one bare positional token followed by the buckets of rest
BareThenRest(buckets, bare, rest) ==
    buckets = [args |-> <<bare>> \o parse_content(rest).args,
               kwargs |-> parse_content(rest).kwargs]

\* C15: a lone - or -- followed by a space outside quotes emits exactly one
\* bare positional token and leaves no dash pending and empty buffers: the
\* text after that space is tokenized as the same text at the start of input.
C15_LoneDashIsBareToken ==
    op = "parse_content"
        => /\ LoneDash(content, <<"-">>)
                 => BareThenRest(tokens, <<"-">>, Drop(content, 2))
           /\ LoneDash(content, <<"-", "-">>)
                 => BareThenRest(tokens, <<"-", "-">>, Drop(content, 3))

\* text is head, an opening quote, body and a closing quote
QuotedAfter(text, head, body) == text = head \o <<"\"">> \o body \o <<"\"">>

\* C16: every space between an opening and a closing quote is part of the
\* committed token, for positional values and for flag values alike,
\* including spaces at the very start of a quoted flag value.
C16_QuotedSpacesKept ==
    op = "parse_content"
        => \A body \in QuotedBodies \ {<<>>} :
              /\ QuotedAfter(content, <<>>, body)
                    => tokens = [args |-> <<body>>, kwargs |-> <<>>]
              /\ (\/ QuotedAfter(content, <<"-", "a", " ">>, body)
                  \/ QuotedAfter(content, <<"-", "-", "a", " ">>, body))
                    => tokens = [args |-> <<>>, kwargs |-> (<<"a">> :> <<body>>)]

\* position k of text holds a backslash that no backslash before it escapes,
\* and a character follows it
EscapesNext(text, k) ==
    /\ k < Len(text)
    /\ text[k] = "\\"
    /\ TrailingBackslashes(SubSeq(text, 1, k - 1)) % 2 = 0

\* the tokenizer after the pair at k, k + 1 is the tokenizer before it with
\* the character at k + 1 appended to the value buffer
PairAppends(text, k) ==
    EndOfInput(SubSeq(text, 1, k + 1))
        = [EndOfInput(SubSeq(text, 1, k - 1)) EXCEPT !.value = Append(@, text[k + 1])]

\* C17: the character after an unescaped backslash is appended verbatim to
\* the value buffer and the backslash is not emitted; the escaped character
\* does not toggle quoting, start or extend a flag name or separate tokens,
\* and the quoted/dash state after the pair is what it was before it.
C17_EscapedCharacterVerbatim ==
    op = "parse_content"
        => \A k \in 1..Len(content) : EscapesNext(content, k) => PairAppends(content, k)

\* a\"a is the one positional token a"a
C17_Witness ==
    /\ op = "parse_content"
    /\ content = <<"a", "\\", "\"", "a">>
    /\ tokens = [args |-> << <<"a", "\"", "a">> >>, kwargs |-> <<>>]

\* the listeners whose predicate is true of text
Matching(text) == {i \in 1..Len(listeners) : Pred(listeners[i], text) = "True"}

\* C20: after any sequence of add_command calls, successful or failed, a
\* message matches the predicate of at most one command listener, and
\* handling it invokes at most one command.
C20_AtMostOneCommand ==
    op = "handle_message" => (Cardinality(Matching(msg)) <= 1 /\ Len(calls) <= 1)

\* two commands are registered and the message invokes one of them
C20_Witness ==
    /\ op = "handle_message"
    /\ Len(listeners) = 2
    /\ Cardinality(Matching(msg)) = 1
    /\ Len(calls) = 1

\* the leading keyword of text after the prefix
Keyword(text) == SplitSpaceFirst(Drop(text, Len(prefix[1])))

\* the commands of the loaded extensions that text names
Named(text) ==
    {extensions[i].commands[Keyword(text)] :
        i \in {j \in 1..Len(extensions) : Keyword(text) \in DOMAIN extensions[j].commands}}

\* C19: for an extension loaded into a client, a message that starts with
\* the prefix and whose leading keyword is one of the extension's command
\* names invokes that command; a message with the prefix whose keyword is
\* not one of the extension's names is a no-op for that extension.
C19_ExtensionDispatch ==
    (op = "handle_message" /\ prefix # <<>> /\ StartsWith(msg, prefix[1]))
        => /\ raised = NoError
           /\ {calls[i].cmd : i \in 1..Len(calls)} = Named(msg)

\* text starts with the prefix and its leading keyword is a registered name
Routed(text) ==
    /\ StartsWith(text, prefix[1])
    /\ Split(Drop(text, Len(prefix[1]))) # <<>>
    /\ Split(Drop(text, Len(prefix[1])))[1] \in DOMAIN commands

\* message i has been received and matches a registered command
ReceivedRouted(i) == i <= Len(tasks) /\ Routed(tasks[i].content)

\* the command message i names has been invoked, once
InvokedFor(i) ==
    /\ i <= Len(tasks)
    /\ Len(tasks[i].calls) = 1
    /\ tasks[i].calls[1].cmd = commands[Split(Drop(tasks[i].content, Len(prefix[1])))[1]]

\* C18: a failure while dispatching one message never prevents later
\* messages from being dispatched: the receive loop keeps running (every
\* message the gateway delivers is received) and every received message
\* that matches a registered command eventually has that command invoked.
C18_LaterMessagesDispatched ==
    /\ <>(op = "start" /\ ws = <<>>)
    /\ [](raised = NoError)
    /\ \A i \in 1..MaxFrames : [](ReceivedRouted(i) => <>InvokedFor(i))

\* the dispatch of the first message failed and the second message's
\* command was invoked and returned
C18_Witness ==
    /\ op = "start"
    /\ Len(tasks) >= 2
    /\ tasks[1].state = "done" /\ tasks[1].raised # NoError
    /\ tasks[2].state = "done" /\ tasks[2].raised = NoError
    /\ Len(tasks[2].calls) = 1

=============================================================================
